---- MODULE Spec2Model ----
(***************************************************************************)
(* A model of the Twilio <-> Deepgram voice-agent relay of                 *)
(* src/twilio_realtime/routes/deepgram_demo.py: the per-call handler       *)
(* handle_media_stream with its connection retry loop, the three asyncio   *)
(* tasks it starts (receive_from_twilio, receive_from_deepgram,            *)
(* send_to_deepgram) and cleanup_connection.                               *)
(*                                                                         *)
(* One action is the code a coroutine runs between two suspension points   *)
(* (an await that can yield to the event loop): asyncio runs that code     *)
(* without interleaving, and any other ready task may run at the await.    *)
(***************************************************************************)
EXTENDS Integers, Sequences, FiniteSets, TLC

\* ------------------------------------------------------------------ bounds
\* How many messages the telephony peer and the agent peer deliver in a run.
MaxTwilioEvents == 3
MaxAgentEvents == 4
\* How many operations are applied to the session registry in a run.
MaxStoreOps == 4
MaxPeerEvents == 4

\* ------------------------------------------------------------ input values
NONE == "None"                       \* Python's None / an absent JSON key
StreamSids == {"MZ1", "MZ2"}
CallSids == {"CA1"}
ItemIds == {"abc"}
Timestamps == {"100", "650"}         \* media.timestamp texts, in ms
Tracks == {"inbound", "outbound"}

\* ------------------------------------------------------------------- bytes
\* A byte string is kept run-length encoded: a sequence of runs [b, n] (n > 0
\* copies of byte b), adjacent runs holding different bytes. The operators
\* below are the ones of Python's bytearray the relay uses.
Run(b, n) == [b |-> b, n |-> n]

RECURSIVE BLen(_)
BLen(s) == IF s = <<>> THEN 0 ELSE Head(s).n + BLen(Tail(s))

\* a + b  (bytearray.extend)
BCat(a, b) ==
    IF a = <<>> THEN b
    ELSE IF b = <<>> THEN a
    ELSE IF a[Len(a)].b = Head(b).b
         THEN SubSeq(a, 1, Len(a) - 1)
              \o <<Run(Head(b).b, a[Len(a)].n + Head(b).n)>> \o Tail(b)
         ELSE a \o b

\* s[:k]
RECURSIVE BTake(_, _)
BTake(s, k) ==
    IF k <= 0 \/ s = <<>> THEN <<>>
    ELSE IF Head(s).n <= k
         THEN <<Head(s)>> \o BTake(Tail(s), k - Head(s).n)
         ELSE <<Run(Head(s).b, k)>>

\* s[k:]
RECURSIVE BDrop(_, _)
BDrop(s, k) ==
    IF k <= 0 \/ s = <<>> THEN s
    ELSE IF Head(s).n <= k
         THEN BDrop(Tail(s), k - Head(s).n)
         ELSE <<Run(Head(s).b, Head(s).n - k)>> \o Tail(s)

\* BUFFER_SIZE = 20 * 160 in receive_from_twilio
BUFFER_SIZE == 20 * 160

\* The base64 texts a media event may carry and what base64.b64decode makes
\* of each; "!!" is not base64 and makes b64decode raise.
Payloads == {"cDE=", "cDI=", "cDM=", "cDQ=", "!!"}
B64Valid(p) == p # "!!"
B64Decode(p) ==
    CASE p = "cDE=" -> <<Run(1, 1600)>>
      [] p = "cDI=" -> <<Run(2, 3200)>>
      [] p = "cDM=" -> <<Run(3, 100), Run(4, 4700)>>
      [] p = "cDQ=" -> <<Run(1, 160)>>
      [] OTHER -> <<>>

\* The audio frames the agent emits (raw mulaw) and base64.b64encode of each.
AgentAudio == {<<Run(7, 320)>>}
AudioChunks == {<<Run(7, 320)>>, <<Run(8, 320)>>}
B64Encode(raw) ==
    CASE raw = <<Run(7, 320)>> -> "BwcH"
      [] raw = <<Run(8, 320)>> -> "CAgI"
      [] OTHER -> "????"

\* ---------------------------------------------------------------- the state
VARIABLES
    \* connection_state of handle_media_stream
    call_sid, deepgram_ws, stream_sid, latest_media_timestamp, mark_queue,
    audio_queue, connection_active, start_data, tasks, speech_started,
    last_assistant_item,
    response_start_timestamp_twilio,  \* <<>> is None, <<t>> is the integer t
    \* locals of handle_media_stream and of receive_from_twilio
    hpc, attempt, retry_delay, inbuffer,
    \* the session registry (models.connection_store.connections)
    connections,
    out,                \* the control messages the relay has written to the two sockets, in order
    uploaded,           \* the audio frames the relay has sent to the agent, in order
    \* the peers and the clock, as far as the claims speak of them
    unacked,            \* marks telephony has received and not yet acknowledged
    sleeps,             \* the delays of the asyncio.sleep calls, in order
    attempts,           \* the outcome of each websockets.connect attempt
    \* history of the run
    cleanup_ran,        \* cleanup_connection was called
    transcript,         \* what print_call_transcript returned, once it was called
    n_twilio, n_agent,  \* messages consumed from telephony / from the agent
    dg_msg,             \* the agent message receive_from_deepgram handled last
    dg_seen,            \* the relay state that message was handled in
    dg_done,            \* the handling of that message ran to its end
    tw_msg,             \* the telephony message receive_from_twilio handled last
    mark_seq,           \* marks appended to mark_queue so far
    popped,             \* the marks popped off mark_queue, in order
    frames_since_clear, \* media messages sent to telephony since mark_queue was last cleared
    inbound_bytes,      \* all decoded inbound-track payloads, concatenated
    framed,             \* all frames put on audio_queue, concatenated
    agent_log,          \* what was sent to and received from the agent, per connection
    delivered,          \* the cancelled tasks whose CancelledError has been raised in them
    raised,             \* the tasks in which an exception reached the task's own handler
    store_op,           \* the operation last applied to the registry, and how many were
    peer,               \* connection_state of the handle_media_stream of a second call
    said,               \* per call id, the messages the relays appended to its session, in order
    heard,              \* the agent audio received while a stream id was set, in order
    probed              \* the telephony message the liveness probe read last

conn_vars == <<call_sid, deepgram_ws, stream_sid, latest_media_timestamp, mark_queue,
               audio_queue, connection_active, start_data, tasks, speech_started,
               last_assistant_item, response_start_timestamp_twilio>>
local_vars == <<hpc, attempt, retry_delay, inbuffer>>
hist_vars == <<cleanup_ran, transcript, n_twilio, n_agent, dg_msg, dg_seen, dg_done, dg_done, tw_msg,
               mark_seq, popped, frames_since_clear, inbound_bytes, framed>>
aux_vars == <<peer, said, heard, probed>>
vars == <<conn_vars, local_vars, connections, out, uploaded, unacked, sleeps, attempts, hist_vars,
          agent_log, delivered, raised, store_op, aux_vars>>

\* ------------------------------------------------------------- the messages
\* A JSON message of the telephony leg; a key that is absent holds NONE.
TwilioMsg(e, sid, cid, tr, p, ts) ==
    [event |-> e, streamSid |-> sid, callSid |-> cid, track |-> tr, payload |-> p,
     timestamp |-> ts]
NoData == TwilioMsg(NONE, NONE, NONE, NONE, NONE, NONE)     \* start_data = None
StartMsg(sid, cid) == TwilioMsg("start", sid, cid, NONE, NONE, NONE)
MediaMsg(tr, p, ts) == TwilioMsg("media", NONE, NONE, tr, p, ts)
MarkMsg == TwilioMsg("mark", NONE, NONE, NONE, NONE, NONE)
StopMsg == TwilioMsg("stop", NONE, NONE, NONE, NONE, NONE)
ConnectedMsg == TwilioMsg("connected", NONE, NONE, NONE, NONE, NONE)

\* What the relay writes: to telephony media / mark / clear messages, to the
\* agent truncate instructions and audio frames.
ToTwilio(kind, sid, payload) ==
    [to |-> "twilio", kind |-> kind, sid |-> sid, item_id |-> NONE, ms |-> 0,
     data |-> payload]
Truncate(item, ms) ==
    [to |-> "agent", kind |-> "conversation.item.truncate", sid |-> NONE, item_id |-> item,
     ms |-> ms, data |-> NONE]

NoTasks == [twilio_task |-> "none", deepgram_task |-> "none", deepgram_sender_task |-> "none"]
NoMsg == [type |-> NONE, role |-> NONE, item_id |-> NONE]
NoSeen == [stream_sid |-> NONE, last_assistant_item |-> NONE,
           response_start_timestamp_twilio |-> <<>>, latest_media_timestamp |-> 0,
           mark_queue |-> <<>>, out |-> 0]
NoTranscript == [assembled |-> FALSE, available |-> FALSE, lines |-> <<>>]
NoStore == [c \in {} |-> <<>>]        \* ConnectionStore.connections = {}
NoSessionData == [phone |-> NONE, has_messages |-> FALSE, messages |-> <<>>]
NoOp == [op |-> NONE, id |-> NONE, data |-> NoSessionData, had |-> -1, n |-> 0]
NoSaid == [c \in {} |-> <<>>]
\* connection_state of a second call, as handle_media_stream builds it; n counts
\* the events that call has handled
NoPeer ==
    [call_sid |-> NONE, stream_sid |-> NONE, latest_media_timestamp |-> 0,
     mark_queue |-> <<>>, audio_queue |-> <<>>, connection_active |-> TRUE,
     last_assistant_item |-> NONE, response_start_timestamp_twilio |-> <<>>,
     inbuffer |-> <<>>, n |-> 0]

\* connection_state as handle_media_stream builds it, after websocket.accept()
Init ==
    /\ call_sid = NONE
    /\ deepgram_ws = NONE
    /\ stream_sid = NONE
    /\ latest_media_timestamp = 0
    /\ mark_queue = <<>>
    /\ audio_queue = <<>>
    /\ connection_active = TRUE
    /\ start_data = NoData
    /\ tasks = NoTasks
    /\ speech_started = FALSE
    /\ last_assistant_item = NONE
    /\ response_start_timestamp_twilio = <<>>
    /\ hpc = "initialize"
    /\ attempt = 0
    /\ retry_delay = 1
    /\ inbuffer = <<>>
    /\ connections = NoStore
    /\ out = <<>>
    /\ uploaded = <<>>
    /\ unacked = <<>>
    /\ sleeps = <<>>
    /\ attempts = <<>>
    /\ cleanup_ran = FALSE
    /\ transcript = NoTranscript
    /\ n_twilio = 0
    /\ n_agent = 0
    /\ dg_msg = NoMsg
    /\ dg_seen = NoSeen
    /\ dg_done = FALSE
    /\ tw_msg = NoData
    /\ mark_seq = 0
    /\ popped = <<>>
    /\ frames_since_clear = 0
    /\ inbound_bytes = <<>>
    /\ framed = <<>>
    /\ agent_log = <<>>
    /\ delivered = {}
    /\ raised = {}
    /\ store_op = NoOp
    /\ peer = NoPeer
    /\ said = NoSaid
    /\ heard = <<>>
    /\ probed = NoData

\* ------------------------------------------------------ the session registry
\* The dict a caller hands to add_connection: the caller's phone and, when
\* has_messages, a "messages" list of its own. A stored session is the dict
\* with its "messages" key: [phone, messages].
Phones == {"+15550001", "+15550002"}
Message(role, content) == [role |-> role, content |-> content]
SessionData(phone, has, msgs) == [phone |-> phone, has_messages |-> has, messages |-> msgs]
Session(data) ==
    [phone |-> data.phone,
     messages |-> IF data.has_messages THEN data.messages ELSE <<>>]

\* an add_connection that keeps the log of a session that exists already
add_connection_keeps_log(store, id, data) ==
    [c \in DOMAIN store \cup {id} |->
        IF c # id THEN store[c]
        ELSE IF id \in DOMAIN store
             THEN [phone |-> data.phone, messages |-> store[id].messages]
             ELSE Session(data)]

\* ConnectionStore.add_connection: self.connections[websocket_id] = data
add_connection(store, id, data) ==
    [c \in DOMAIN store \cup {id} |-> IF c = id THEN Session(data) ELSE store[c]]

\* ConnectionStore.get_connection: <<>> is None (not found)
get_connection(store, id) == IF id \in DOMAIN store THEN <<store[id]>> ELSE <<>>

\* an add_message that puts the newest message first
add_message_first(store, id, role, content) ==
    IF id \in DOMAIN store
    THEN [store EXCEPT ![id].messages = <<Message(role, content)>> \o @]
    ELSE store

\* an add_message whose sessions share one list of messages
add_message_shared(store, id, role, content) ==
    IF id \in DOMAIN store
    THEN [c \in DOMAIN store |->
             [store[c] EXCEPT !.messages = Append(@, Message(role, content))]]
    ELSE store

\* an add_message that opens a session for an id that has none
add_message_creates(store, id, role, content) ==
    [c \in DOMAIN store \cup {id} |->
        IF c # id THEN store[c]
        ELSE IF id \in DOMAIN store
             THEN [store[id] EXCEPT !.messages = Append(@, Message(role, content))]
             ELSE [phone |-> NONE, messages |-> <<Message(role, content)>>]]

\* ConnectionStore.add_message: nothing when the id has no session
add_message(store, id, role, content) ==
    IF id \in DOMAIN store
    THEN [store EXCEPT ![id].messages = Append(@, Message(role, content))]
    ELSE store

\* ConnectionStore.get_messages
get_messages(store, id) == IF id \in DOMAIN store THEN store[id].messages ELSE <<>>

\* a remove_connection that deletes nothing
remove_nothing(store, id) == store

\* ConnectionStore.remove_connection
remove_connection(store, id) == [c \in DOMAIN store \ {id} |-> store[c]]

\* The registry as its callers may use it: any operation on any id, at most
\* MaxStoreOps of them. store_op keeps the operation, its arguments and the
\* length of the id's log before it (-1 when the id had no session).
StoreOp(op, id, data) ==
    [op |-> op, id |-> id, data |-> data,
     had |-> IF id \in DOMAIN connections THEN Len(connections[id].messages) ELSE -1,
     n |-> store_op.n + 1]

StoreCreate(id, data) ==
    /\ store_op.n < MaxStoreOps
    /\ connections' = add_connection(connections, id, data)
    /\ store_op' = StoreOp("create", id, data)
    /\ UNCHANGED <<aux_vars, conn_vars, local_vars, out, uploaded, unacked, sleeps, attempts, hist_vars,
                   agent_log, delivered, raised>>

StoreAppend(id, role) ==
    /\ store_op.n < MaxStoreOps
    /\ connections' = add_message(connections, id, role, "text")
    /\ store_op' = StoreOp("append", id, NoSessionData)
    /\ UNCHANGED <<aux_vars, conn_vars, local_vars, out, uploaded, unacked, sleeps, attempts, hist_vars,
                   agent_log, delivered, raised>>

StoreRemove(id) ==
    /\ store_op.n < MaxStoreOps
    /\ connections' = remove_connection(connections, id)
    /\ store_op' = StoreOp("remove", id, NoSessionData)
    /\ UNCHANGED <<aux_vars, conn_vars, local_vars, out, uploaded, unacked, sleeps, attempts, hist_vars,
                   agent_log, delivered, raised>>

\* str.upper() of the roles
Upper(role) ==
    CASE role = "user" -> "USER"
      [] role = "assistant" -> "ASSISTANT"
      [] OTHER -> role

\* a transcript printed from the newest message back
print_call_transcript_reversed(store, id) ==
    IF id \in DOMAIN store
    THEN [assembled |-> TRUE, available |-> TRUE,
          lines |-> [i \in 1..Len(store[id].messages) |->
                        [role |-> Upper(store[id].messages[Len(store[id].messages) + 1 - i].role),
                         content |->
                             store[id].messages[Len(store[id].messages) + 1 - i].content]]]
    ELSE [assembled |-> TRUE, available |-> FALSE, lines |-> <<>>]

\* print_call_transcript: one line per logged message, or "No transcript available."
print_call_transcript(store, id) ==
    IF id \in DOMAIN store
    THEN [assembled |-> TRUE, available |-> TRUE,
          lines |-> [i \in 1..Len(store[id].messages) |->
                        [role |-> Upper(store[id].messages[i].role),
                         content |-> store[id].messages[i].content]]]
    ELSE [assembled |-> TRUE, available |-> FALSE, lines |-> <<>>]

\* handle_incoming_call: the webhook that precedes the media stream of a call
HandleIncomingCall(id) ==
    /\ hpc = "initialize"
    /\ id \notin DOMAIN connections
    /\ connections' = add_connection(connections, id, SessionData("+15550001", TRUE, <<>>))
    /\ UNCHANGED <<aux_vars, store_op, raised, agent_log, delivered, conn_vars, local_vars, out, uploaded, unacked, sleeps, attempts, hist_vars>>

\* ------------------------------------------------------ handle_media_stream
\* initialize_connection_state: the first telephony message, awaited for 5 s.
\* msg = NoData stands for the failures it catches (timeout, bad JSON, KeyError).
InitializeConnectionState(msg) ==
    /\ hpc = "initialize"
    /\ call_sid' = IF msg.event = "start"
                   THEN (IF msg.callSid # NONE THEN msg.callSid ELSE msg.streamSid)
                   ELSE call_sid
    /\ start_data' = msg
    /\ hpc' = "connect"
    /\ UNCHANGED <<aux_vars, store_op, raised, agent_log, delivered, deepgram_ws, stream_sid, latest_media_timestamp, mark_queue, audio_queue,
                   connection_active, tasks, speech_started, last_assistant_item,
                   response_start_timestamp_twilio, attempt, retry_delay, inbuffer,
                   connections, out, uploaded, unacked, sleeps, attempts, hist_vars>>

\* max_retries = 3
max_retries == 3

IsRunning(pc) == pc \notin {"none", "done", "cancelled"}

\* a handler that leaves the pending tasks alone
CancelNone(ts) == ts

\* task.cancel() on every task that is not done: the task performs no further
\* step, CancelledError is raised in it when the event loop next runs it
CancelPending(ts) ==
    [t \in DOMAIN ts |-> IF IsRunning(ts[t]) THEN "cancelled" ELSE ts[t]]

\* a finally clause that never ends the call
CleanupNever(att, active) == FALSE

\* the finally clause of the retry loop: whether cleanup_connection runs
CleanupDue(att, active) == att = max_retries - 1 \/ ~active

\* cleanup_connection: its effect on tasks, transcript and deepgram_ws
CleanupTasks(ts) == CancelPending(ts)
CleanupTranscript(store, id) ==
    IF id # NONE THEN print_call_transcript(store, id) ELSE NoTranscript
CleanupSocket(ws) == IF ws = "open" THEN "closed" ELSE ws

\* What travels on the agent connection of attempt number c.
Sent(c, what) == [conn |-> c, dir |-> "sent", what |-> what]
Received(c, what) == [conn |-> c, dir |-> "received", what |-> what]

\* a session set up without waiting for the agent's answer
SessionLogNoResponse(c) == <<Sent(c, "Settings")>>

\* initialize_deepgram_session when it returns: the Settings message was sent
\* and deepgram_ws.recv() returned the agent's first message within 5 s
SessionLog(c) == <<Sent(c, "Settings"), Received(c, "response")>>

\* initialize_deepgram_session when it raises after the Settings message
FailedLog(outcome, c) ==
    IF outcome \in {"HandshakeTimeout", "SessionError"} THEN <<Sent(c, "Settings")>> ELSE <<>>

\* One pass of the retry loop that fails before the tasks are created.
\*   "InvalidHandshake": websockets.connect raises InvalidHandshake
\*   "ConnectError":     websockets.connect raises another exception
\*   "HandshakeTimeout": the socket opens, the Settings message is sent and no
\*                       answer arrives within 5 s: asyncio.TimeoutError
\*   "SessionError":     the socket opens, the Settings message is sent and the
\*                       agent closes the socket: recv raises ConnectionClosed
ConnectFails(outcome) ==
    /\ hpc = "connect"
    /\ attempts' = Append(attempts, outcome)
    /\ agent_log' = agent_log \o FailedLog(outcome, Len(attempts) + 1)
    /\ LET ws == IF outcome \in {"HandshakeTimeout", "SessionError"}
                 THEN "closed" ELSE deepgram_ws IN
       IF outcome = "InvalidHandshake" /\ attempt < max_retries - 1
       THEN \* await asyncio.sleep(retry_delay)
            /\ hpc' = "sleep"
            /\ sleeps' = Append(sleeps, retry_delay)
            /\ deepgram_ws' = ws
            /\ UNCHANGED <<attempt, cleanup_ran, transcript, tasks>>
       ELSE IF CleanupDue(attempt, connection_active)
            THEN /\ hpc' = "closed"
                 /\ cleanup_ran' = TRUE
                 /\ transcript' = CleanupTranscript(connections, call_sid)
                 /\ tasks' = CleanupTasks(tasks)
                 /\ deepgram_ws' = CleanupSocket(ws)
                 /\ UNCHANGED <<attempt, sleeps>>
            ELSE /\ attempt' = attempt + 1
                 /\ deepgram_ws' = ws
                 /\ UNCHANGED <<hpc, sleeps, cleanup_ran, transcript, tasks>>
    /\ UNCHANGED <<aux_vars, store_op, raised, delivered, call_sid, stream_sid, latest_media_timestamp, mark_queue, audio_queue,
                   connection_active, start_data, speech_started, last_assistant_item,
                   response_start_timestamp_twilio, retry_delay, inbuffer, connections,
                   out, uploaded, unacked, n_twilio, n_agent, dg_msg, dg_seen, dg_done, tw_msg,
                   mark_seq, popped, frames_since_clear, inbound_bytes, framed>>

\* a retry that keeps the delay it started with
BackoffConstant(d) == d

\* retry_delay *= 2
Backoff(d) == d * 2

\* The sleep is over: retry_delay doubles, the finally clause runs and the
\* loop goes on to the next attempt.
SleepDone ==
    /\ hpc = "sleep"
    /\ retry_delay' = Backoff(retry_delay)
    /\ IF CleanupDue(attempt, connection_active)
       THEN /\ hpc' = "closed"
            /\ cleanup_ran' = TRUE
            /\ transcript' = CleanupTranscript(connections, call_sid)
            /\ tasks' = CleanupTasks(tasks)
            /\ deepgram_ws' = CleanupSocket(deepgram_ws)
            /\ UNCHANGED attempt
       ELSE /\ hpc' = "connect"
            /\ attempt' = attempt + 1
            /\ UNCHANGED <<cleanup_ran, transcript, tasks, deepgram_ws>>
    /\ UNCHANGED <<aux_vars, store_op, raised, agent_log, delivered, call_sid, stream_sid, latest_media_timestamp, mark_queue,
                   audio_queue, connection_active, start_data, speech_started,
                   last_assistant_item, response_start_timestamp_twilio, inbuffer,
                   connections, out, uploaded, unacked, sleeps, attempts, n_twilio, n_agent,
                   dg_msg, dg_seen, dg_done, tw_msg, mark_seq, popped, frames_since_clear,
                   inbound_bytes, framed>>

\* a stop event that leaves connection_active set
StopLeavesActive(active) == active

\* receive_from_twilio on a stop event: connection_active = False
StopActive(active) == FALSE

\* the loop condition of receive_from_twilio: while connection_active
LoopTop(active) == IF active THEN "recv" ELSE "done"

\* the loop condition of send_to_deepgram: while connection_active
SenderLoopTop(active) == IF active THEN "get" ELSE "done"

\* receive_from_twilio before its loop: the stream id of the initial start event
StartStreamSid(data, sid) == IF data.event = "start" THEN data.streamSid ELSE sid

\* websockets.connect and initialize_deepgram_session succeed: the three tasks
\* are created and the handler waits for the first of them to end. The event
\* loop runs each new task up to its first await before any socket is read,
\* so the code the tasks run before their first await is part of this step:
\* receive_from_twilio takes the stream id over and enters its loop,
\* receive_from_deepgram enters the async for, send_to_deepgram its loop.
ConnectOk ==
    /\ hpc = "connect"
    /\ attempts' = Append(attempts, "ok")
    /\ agent_log' = agent_log \o SessionLog(Len(attempts) + 1)
    /\ deepgram_ws' = "open"
    /\ stream_sid' = StartStreamSid(start_data, stream_sid)
    /\ latest_media_timestamp' = IF start_data.event = "start" THEN 0
                                 ELSE latest_media_timestamp
    /\ inbuffer' = <<>>
    /\ tasks' = [twilio_task |-> LoopTop(connection_active),
                 deepgram_task |-> "recv",
                 deepgram_sender_task |-> SenderLoopTop(connection_active)]
    /\ hpc' = "wait"
    /\ UNCHANGED <<aux_vars, store_op, raised, delivered, call_sid, mark_queue, audio_queue, connection_active, start_data,
                   speech_started, last_assistant_item, response_start_timestamp_twilio,
                   attempt, retry_delay, connections, out, uploaded, unacked, sleeps,
                   hist_vars>>

\* a handler that goes back to connecting unless cleanup is due
AfterWaitRetries(att, active) == IF CleanupDue(att, active) THEN "closed" ELSE "connect"

\* the break after asyncio.wait leaves the retry loop; the finally clause ends
\* with the loop over whether or not cleanup is due
AfterWait(att, active) == "closed"

\* asyncio.wait(FIRST_COMPLETED) returns: the pending tasks are cancelled, the
\* loop is left (leaving "async with" starts the closing of the agent socket),
\* and the finally clause runs. No task is awaited on the way: the cancelled
\* tasks end when the event loop next runs them (CancelledErrorDelivered).
WaitReturns ==
    /\ hpc = "wait"
    /\ \E t \in DOMAIN tasks : tasks[t] = "done"
    /\ hpc' = AfterWait(attempt, connection_active)
    /\ IF CleanupDue(attempt, connection_active)
       THEN /\ cleanup_ran' = TRUE
            /\ transcript' = CleanupTranscript(connections, call_sid)
            /\ tasks' = CleanupTasks(CancelPending(tasks))
            /\ deepgram_ws' = CleanupSocket("closed")
       ELSE /\ tasks' = CancelPending(tasks)
            /\ deepgram_ws' = "closed"
            /\ UNCHANGED <<cleanup_ran, transcript>>
    /\ UNCHANGED <<aux_vars, store_op, raised, agent_log, delivered, call_sid, stream_sid, latest_media_timestamp, mark_queue, audio_queue,
                   connection_active, start_data, speech_started, last_assistant_item,
                   response_start_timestamp_twilio, attempt, retry_delay, inbuffer,
                   connections, out, uploaded, unacked, sleeps, attempts, n_twilio, n_agent,
                   dg_msg, dg_seen, dg_done, tw_msg, mark_seq, popped, frames_since_clear,
                   inbound_bytes, framed>>

\* The event loop runs a cancelled task: CancelledError is raised at its await,
\* no handler of the task catches it (it is no Exception) and the task ends.
CancelledErrorDelivered(t) ==
    /\ tasks[t] = "cancelled"
    /\ t \notin delivered
    /\ delivered' = delivered \cup {t}
    /\ UNCHANGED <<aux_vars, store_op, raised, conn_vars, local_vars, connections, out, uploaded, unacked, sleeps,
                   attempts, hist_vars, agent_log>>

\* ------------------------------------------------------ receive_from_twilio
\* int(data.get("media", {}).get("timestamp", 0))
IntOf(ts) ==
    CASE ts = NONE -> 0
      [] ts = "100" -> 100
      [] ts = "650" -> 650
      [] OTHER -> 0

\* the framing loop: while len(inbuffer) >= BUFFER_SIZE
RECURSIVE Frames(_)
Frames(buf) ==
    IF BLen(buf) >= BUFFER_SIZE
    THEN <<BTake(buf, BUFFER_SIZE)>> \o Frames(BDrop(buf, BUFFER_SIZE))
    ELSE <<>>

\* a framer that throws the bytes left over after the last frame away
RemainderDropped(buf) == <<>>

RECURSIVE Remainder(_)
Remainder(buf) ==
    IF BLen(buf) >= BUFFER_SIZE THEN Remainder(BDrop(buf, BUFFER_SIZE)) ELSE buf

RECURSIVE Flatten(_)
Flatten(frames) ==
    IF frames = <<>> THEN <<>> ELSE BCat(Head(frames), Flatten(Tail(frames)))

\* a pop() that takes the newest mark instead of the oldest
PopMarkLast(q) == SubSeq(q, 1, Len(q) - 1)

\* mark_queue.pop(0)
PopMark(q) == Tail(q)

\* the sequence numbers of the marks of q that q2 no longer holds
Removed(q, q2) ==
    LET gone == SelectSeq(q, LAMBDA m : \A i \in 1..Len(q2) : q2[i] # m)
    IN  [i \in 1..Len(gone) |-> gone[i].seq]

\* what every receipt of a telephony message records
TwilioReceives(msg) ==
    /\ tasks.twilio_task = "recv"
    /\ n_twilio < MaxTwilioEvents
    /\ n_twilio' = n_twilio + 1
    /\ tw_msg' = msg

\* a media event
TwilioMedia(tr, p, ts) ==
    /\ TwilioReceives(MediaMsg(tr, p, ts))
    /\ latest_media_timestamp' = IntOf(ts)
    /\ IF ~B64Valid(p)
       THEN \* b64decode raises: except Exception
            /\ connection_active' = FALSE
            /\ tasks' = [tasks EXCEPT !.twilio_task = "done"]
            /\ raised' = raised \cup {"twilio_task"}
            /\ UNCHANGED <<inbuffer, audio_queue, inbound_bytes, framed>>
       ELSE /\ IF tr = "inbound"
               THEN LET buf == BCat(inbuffer, B64Decode(p)) IN
                    /\ audio_queue' = audio_queue \o Frames(buf)
                    /\ inbuffer' = Remainder(buf)
                    /\ inbound_bytes' = BCat(inbound_bytes, B64Decode(p))
                    /\ framed' = BCat(framed, Flatten(Frames(buf)))
               ELSE UNCHANGED <<inbuffer, audio_queue, inbound_bytes, framed>>
            /\ tasks' = [tasks EXCEPT !.twilio_task = LoopTop(connection_active)]
            /\ UNCHANGED <<connection_active, raised>>
    /\ UNCHANGED <<aux_vars, store_op, agent_log, delivered, call_sid, deepgram_ws, stream_sid, mark_queue, start_data,
                   speech_started, last_assistant_item, response_start_timestamp_twilio,
                   hpc, attempt, retry_delay, connections, out, uploaded, unacked, sleeps,
                   attempts, cleanup_ran, transcript, n_agent, dg_msg, dg_seen, dg_done, mark_seq,
                   popped, frames_since_clear>>

\* a handler that takes the call id of every start event
StartCallSidOverwrites(cur, sid, cid) == IF cid # NONE THEN cid ELSE sid

\* handle_start_event: the call id is taken from the event (callSid, else the
\* stream id) only if the relay has none yet
StartCallSid(cur, sid, cid) ==
    IF cur = NONE THEN (IF cid # NONE THEN cid ELSE sid) ELSE cur

\* a start event inside the loop: handle_start_event
TwilioStart(sid, cid) ==
    /\ TwilioReceives(StartMsg(sid, cid))
    /\ stream_sid' = sid
    /\ call_sid' = StartCallSid(call_sid, sid, cid)
    /\ latest_media_timestamp' = 0
    /\ last_assistant_item' = NONE
    /\ response_start_timestamp_twilio' = <<>>
    /\ tasks' = [tasks EXCEPT !.twilio_task = LoopTop(connection_active)]
    /\ UNCHANGED <<aux_vars, store_op, raised, agent_log, delivered, deepgram_ws, mark_queue, audio_queue, connection_active, start_data,
                   speech_started, hpc, attempt, retry_delay, inbuffer, connections, out,
                   uploaded, unacked, sleeps, attempts, cleanup_ran, transcript, n_agent,
                   dg_msg, dg_seen, dg_done, mark_seq, popped, frames_since_clear, inbound_bytes,
                   framed>>

\* a mark event: telephony acknowledges the oldest mark it holds
TwilioMark ==
    /\ TwilioReceives(MarkMsg)
    /\ unacked # <<>>
    /\ unacked' = Tail(unacked)
    /\ IF mark_queue # <<>>
       THEN /\ mark_queue' = PopMark(mark_queue)
            /\ popped' = popped \o Removed(mark_queue, PopMark(mark_queue))
       ELSE UNCHANGED <<mark_queue, popped>>
    /\ tasks' = [tasks EXCEPT !.twilio_task = LoopTop(connection_active)]
    /\ UNCHANGED <<aux_vars, store_op, raised, agent_log, delivered, call_sid, deepgram_ws, stream_sid, latest_media_timestamp, audio_queue,
                   connection_active, start_data, speech_started, last_assistant_item,
                   response_start_timestamp_twilio, hpc, attempt, retry_delay, inbuffer,
                   connections, out, uploaded, sleeps, attempts, cleanup_ran, transcript,
                   n_agent, dg_msg, dg_seen, dg_done, mark_seq, frames_since_clear, inbound_bytes,
                   framed>>

\* a stop event
TwilioStop ==
    /\ TwilioReceives(StopMsg)
    /\ connection_active' = StopActive(connection_active)
    /\ tasks' = [tasks EXCEPT !.twilio_task = "done"]
    /\ UNCHANGED <<aux_vars, store_op, raised, agent_log, delivered, call_sid, deepgram_ws, stream_sid, latest_media_timestamp, mark_queue,
                   audio_queue, start_data, speech_started, last_assistant_item,
                   response_start_timestamp_twilio, hpc, attempt, retry_delay, inbuffer,
                   connections, out, uploaded, unacked, sleeps, attempts, cleanup_ran,
                   transcript, n_agent, dg_msg, dg_seen, dg_done, mark_seq, popped,
                   frames_since_clear, inbound_bytes, framed>>

\* an event the loop has no branch for (Twilio's "connected", say)
TwilioOther ==
    /\ TwilioReceives(ConnectedMsg)
    /\ tasks' = [tasks EXCEPT !.twilio_task = LoopTop(connection_active)]
    /\ UNCHANGED <<aux_vars, store_op, raised, agent_log, delivered, call_sid, deepgram_ws, stream_sid, latest_media_timestamp, mark_queue,
                   audio_queue, connection_active, start_data, speech_started,
                   last_assistant_item, response_start_timestamp_twilio, hpc, attempt,
                   retry_delay, inbuffer, connections, out, uploaded, unacked, sleeps,
                   attempts, cleanup_ran, transcript, n_agent, dg_msg, dg_seen, dg_done,
                   mark_seq, popped, frames_since_clear, inbound_bytes, framed>>

\* a handler that logs the error and leaves the flag as it was
ExceptionIgnored(active) == active

\* the outer handler of a loop (except Exception): connection_active = False
AfterException(active) == FALSE

\* a text that is not JSON: json.loads raises, the outer "except Exception"
\* catches it
TwilioMalformed ==
    /\ TwilioReceives(TwilioMsg("not json", NONE, NONE, NONE, NONE, NONE))
    /\ connection_active' = AfterException(connection_active)
    /\ tasks' = [tasks EXCEPT !.twilio_task = "done"]
    /\ raised' = raised \cup {"twilio_task"}
    /\ UNCHANGED <<aux_vars, store_op, agent_log, delivered, call_sid, deepgram_ws, stream_sid, latest_media_timestamp, mark_queue,
                   audio_queue, start_data, speech_started, last_assistant_item,
                   response_start_timestamp_twilio, hpc, attempt, retry_delay, inbuffer,
                   connections, out, uploaded, unacked, sleeps, attempts, cleanup_ran,
                   transcript, n_agent, dg_msg, dg_seen, dg_done, mark_seq, popped,
                   frames_since_clear, inbound_bytes, framed>>

\* receive_text raises WebSocketDisconnect
TwilioDisconnects ==
    /\ tasks.twilio_task = "recv"
    /\ connection_active' = FALSE
    /\ tasks' = [tasks EXCEPT !.twilio_task = "done"]
    /\ raised' = raised \cup {"twilio_task"}
    /\ UNCHANGED <<aux_vars, store_op, agent_log, delivered, call_sid, deepgram_ws, stream_sid, latest_media_timestamp, mark_queue,
                   audio_queue, start_data, speech_started, last_assistant_item,
                   response_start_timestamp_twilio, hpc, attempt, retry_delay, inbuffer,
                   connections, out, uploaded, unacked, sleeps, attempts, hist_vars>>

\* nothing arrives for 5 s: asyncio.TimeoutError, the probe receive_text starts
TwilioTimeout ==
    /\ tasks.twilio_task = "recv"
    /\ tasks' = [tasks EXCEPT !.twilio_task = "probe"]
    /\ UNCHANGED <<aux_vars, store_op, raised, agent_log, delivered, call_sid, deepgram_ws, stream_sid, latest_media_timestamp, mark_queue,
                   audio_queue, connection_active, start_data, speech_started,
                   last_assistant_item, response_start_timestamp_twilio, hpc, attempt,
                   retry_delay, inbuffer, connections, out, uploaded, unacked, sleeps,
                   attempts, hist_vars>>

\* the probe reads a message: it is bound to "pong" and not looked at
TwilioProbeReads(msg) ==
    /\ tasks.twilio_task = "probe"
    /\ n_twilio < MaxTwilioEvents
    /\ n_twilio' = n_twilio + 1
    /\ msg.event = "mark" => unacked # <<>>
    /\ unacked' = IF msg.event = "mark" THEN Tail(unacked) ELSE unacked
    /\ probed' = msg
    /\ tasks' = [tasks EXCEPT !.twilio_task = LoopTop(connection_active)]
    /\ UNCHANGED <<peer, said, heard, store_op, raised, agent_log, delivered, call_sid, deepgram_ws, stream_sid, latest_media_timestamp, mark_queue,
                   audio_queue, connection_active, start_data, speech_started,
                   last_assistant_item, response_start_timestamp_twilio, hpc, attempt,
                   retry_delay, inbuffer, connections, out, uploaded, sleeps, attempts,
                   cleanup_ran, transcript, n_agent, dg_msg, dg_seen, dg_done, tw_msg,
                   mark_seq, popped, frames_since_clear, inbound_bytes, framed>>

\* the probe raises: the connection is taken to be closed
TwilioProbeFails ==
    /\ tasks.twilio_task = "probe"
    /\ connection_active' = FALSE
    /\ tasks' = [tasks EXCEPT !.twilio_task = "done"]
    /\ raised' = raised \cup {"twilio_task"}
    /\ UNCHANGED <<aux_vars, store_op, agent_log, delivered, call_sid, deepgram_ws, stream_sid, latest_media_timestamp, mark_queue,
                   audio_queue, start_data, speech_started, last_assistant_item,
                   response_start_timestamp_twilio, hpc, attempt, retry_delay, inbuffer,
                   connections, out, uploaded, unacked, sleeps, attempts, hist_vars>>

\* --------------------------------------------------------- send_to_deepgram
\* a queue that hands out the newest frame
QueueGetLast(q) == q[Len(q)]

\* asyncio.Queue.get(): the frame that has waited longest
QueueGet(q) == Head(q)

\* audio_queue.get() returns a frame; it is sent if the agent socket is open
SenderGets ==
    /\ tasks.deepgram_sender_task = "get"
    /\ audio_queue # <<>>
    /\ audio_queue' = Tail(audio_queue)
    /\ IF deepgram_ws = "open"
       THEN /\ uploaded' = Append(uploaded, QueueGet(audio_queue))
            /\ agent_log' = Append(agent_log, Sent(Len(attempts), "audio"))
            /\ tasks' = [tasks EXCEPT !.deepgram_sender_task = "sent"]
       ELSE /\ tasks' = [tasks EXCEPT
                           !.deepgram_sender_task = SenderLoopTop(connection_active)]
            /\ UNCHANGED <<uploaded, agent_log>>
    /\ UNCHANGED <<aux_vars, store_op, raised, delivered, call_sid, deepgram_ws, stream_sid, latest_media_timestamp, mark_queue,
                   connection_active, start_data, speech_started, last_assistant_item,
                   response_start_timestamp_twilio, local_vars, connections, out, unacked,
                   sleeps, attempts, hist_vars>>

\* deepgram_ws.send returns
SenderSent ==
    /\ tasks.deepgram_sender_task = "sent"
    /\ tasks' = [tasks EXCEPT !.deepgram_sender_task = SenderLoopTop(connection_active)]
    /\ UNCHANGED <<aux_vars, store_op, raised, agent_log, delivered, call_sid, deepgram_ws, stream_sid, latest_media_timestamp, mark_queue,
                   audio_queue, connection_active, start_data, speech_started,
                   last_assistant_item, response_start_timestamp_twilio, local_vars,
                   connections, out, uploaded, unacked, sleeps, attempts, hist_vars>>

\* deepgram_ws.send raises because the socket was closed under it: the outer
\* handler of send_to_deepgram
SenderSendFails ==
    /\ tasks.deepgram_sender_task = "sent"
    /\ deepgram_ws \in {"closed_ok", "closed_error"}
    /\ connection_active' = AfterException(connection_active)
    /\ tasks' = [tasks EXCEPT !.deepgram_sender_task = "done"]
    /\ raised' = raised \cup {"deepgram_sender_task"}
    /\ UNCHANGED <<aux_vars, store_op, agent_log, delivered, call_sid, deepgram_ws, stream_sid,
                   latest_media_timestamp, mark_queue, audio_queue, start_data,
                   speech_started, last_assistant_item, response_start_timestamp_twilio,
                   local_vars, connections, out, uploaded, unacked, sleeps, attempts,
                   hist_vars>>

\* ---------------------------------------------------- receive_from_deepgram
\* A JSON event of the agent leg; an absent key holds NONE.
AgentMsg(type, role, item) == [type |-> type, role |-> role, item_id |-> item]

\* the state a message is handled in, kept for the claims
Seen ==
    [stream_sid |-> stream_sid, last_assistant_item |-> last_assistant_item,
     response_start_timestamp_twilio |-> response_start_timestamp_twilio,
     latest_media_timestamp |-> latest_media_timestamp, mark_queue |-> mark_queue,
     out |-> Len(out)]

\* the condition without its test of last_assistant_item
BargeInDueNoItem(sid, item, start) == sid # NONE /\ start # <<>>

\* the condition under which "UserStartedSpeaking" interrupts the agent
BargeInDue(sid, item, start) == sid # NONE /\ item # NONE /\ start # <<>>

\* an elapsed time that forgets when the utterance began
ElapsedTimeFromZero(latest, start) == latest

\* elapsed_time = latest_media_timestamp - response_start_timestamp_twilio
ElapsedTime(latest, start) == latest - start

\* a barge-in that leaves the marks in the queue
ClearMarksNoOp(q) == q

\* connection_state["mark_queue"].clear()
ClearMarks(q) == <<>>

\* a send_mark that sends the mark and does not note it
AppendNoMark(q, n) == q

\* send_mark: mark_queue.append("responsePart"); seq numbers the list cells
AppendMark(q, n) == Append(q, [name |-> "responsePart", seq |-> n])

\* what every receipt of an agent message records; the message is handled
\* only while connection_active
DeepgramReceives(msg) ==
    /\ tasks.deepgram_task = "recv"
    /\ deepgram_ws = "open"
    /\ n_agent < MaxAgentEvents
    /\ n_agent' = n_agent + 1
    /\ dg_msg' = msg
    /\ dg_seen' = Seen

\* a message arrives after connection_active was cleared: break
DeepgramInactive(msg) ==
    /\ DeepgramReceives(msg)
    /\ ~connection_active
    /\ dg_done' = FALSE
    /\ tasks' = [tasks EXCEPT !.deepgram_task = "done"]
    /\ UNCHANGED <<aux_vars, store_op, raised, agent_log, delivered, call_sid, deepgram_ws, stream_sid, latest_media_timestamp, mark_queue,
                   audio_queue, connection_active, start_data, speech_started,
                   last_assistant_item, response_start_timestamp_twilio, local_vars,
                   connections, out, uploaded, unacked, sleeps, attempts, cleanup_ran,
                   transcript, n_twilio, tw_msg, mark_seq, popped, frames_since_clear,
                   inbound_bytes, framed>>

\* the record of a message a relay appends to the session of id: kept per id,
\* in the order of the add_message calls, for the sessions that exist
Said(log, store, id, m) ==
    IF id \in DOMAIN store
    THEN [c \in DOMAIN log \cup {id} |->
             IF c = id THEN Append(IF id \in DOMAIN log THEN log[id] ELSE <<>>, m)
             ELSE log[c]]
    ELSE log

\* a ConversationText event with a role and a content
DeepgramConversationText(role, item) ==
    /\ DeepgramReceives(AgentMsg("ConversationText", role, item))
    /\ connection_active
    /\ dg_done' = TRUE
    /\ connections' = add_message(connections, call_sid, role, "text")
    /\ said' = Said(said, connections, call_sid, Message(role, "text"))
    /\ IF role = "assistant"
       THEN /\ last_assistant_item' = item
            /\ response_start_timestamp_twilio' =
                  IF response_start_timestamp_twilio = <<>>
                  THEN <<latest_media_timestamp>>
                  ELSE response_start_timestamp_twilio
       ELSE UNCHANGED <<last_assistant_item, response_start_timestamp_twilio>>
    /\ UNCHANGED <<peer, heard, probed, store_op, raised, agent_log, delivered, call_sid, deepgram_ws, stream_sid, latest_media_timestamp, mark_queue,
                   audio_queue, connection_active, start_data, tasks, speech_started,
                   local_vars, out, uploaded, unacked, sleeps, attempts, cleanup_ran,
                   transcript, n_twilio, tw_msg, mark_seq, popped, frames_since_clear,
                   inbound_bytes, framed>>

\* a handler that gives the loop up on a text it cannot parse
JSONDecodeErrorEndsLoop(active) == "done"

\* except json.JSONDecodeError: the error is logged and the async for goes on
AfterJSONDecodeError(active) == "recv"

\* a text message that is not JSON: json.loads raises JSONDecodeError
DeepgramMalformed ==
    /\ DeepgramReceives(AgentMsg("not json", NONE, NONE))
    /\ connection_active
    /\ dg_done' = TRUE
    /\ tasks' = [tasks EXCEPT !.deepgram_task = AfterJSONDecodeError(connection_active)]
    /\ UNCHANGED <<aux_vars, store_op, raised, agent_log, delivered, call_sid, deepgram_ws, stream_sid,
                   latest_media_timestamp, mark_queue, audio_queue, connection_active,
                   start_data, speech_started, last_assistant_item,
                   response_start_timestamp_twilio, local_vars, connections, out, uploaded,
                   unacked, sleeps, attempts, cleanup_ran, transcript, n_twilio, tw_msg,
                   mark_seq, popped, frames_since_clear, inbound_bytes, framed>>

\* a JSON event of a type no branch of the handler names ("Welcome", say)
DeepgramUnrecognised ==
    /\ DeepgramReceives(AgentMsg("Welcome", NONE, NONE))
    /\ connection_active
    /\ dg_done' = TRUE
    /\ UNCHANGED <<aux_vars, store_op, raised, agent_log, delivered, conn_vars, local_vars,
                   connections, out, uploaded, unacked, sleeps, attempts, cleanup_ran,
                   transcript, n_twilio, tw_msg, mark_seq, popped, frames_since_clear,
                   inbound_bytes, framed>>

\* a JSON event without a "type": data.get("type", None).lower() raises
\* AttributeError, which only the outer handler of the task catches
DeepgramRaises ==
    /\ DeepgramReceives(AgentMsg(NONE, NONE, NONE))
    /\ connection_active
    /\ dg_done' = TRUE
    /\ connection_active' = AfterException(connection_active)
    /\ tasks' = [tasks EXCEPT !.deepgram_task = "done"]
    /\ raised' = raised \cup {"deepgram_task"}
    /\ UNCHANGED <<aux_vars, store_op, agent_log, delivered, call_sid, deepgram_ws, stream_sid,
                   latest_media_timestamp, mark_queue, audio_queue, start_data,
                   speech_started, last_assistant_item, response_start_timestamp_twilio,
                   local_vars, connections, out, uploaded, unacked, sleeps, attempts,
                   cleanup_ran, transcript, n_twilio, tw_msg, mark_seq, popped,
                   frames_since_clear, inbound_bytes, framed>>

\* a UserStartedSpeaking event. With an agent utterance in flight the truncate
\* instruction is sent to the agent and the task waits for that send.
DeepgramUserStartedSpeaking ==
    /\ DeepgramReceives(AgentMsg("UserStartedSpeaking", NONE, NONE))
    /\ connection_active
    /\ speech_started' = TRUE
    /\ IF BargeInDue(stream_sid, last_assistant_item, response_start_timestamp_twilio)
       THEN /\ out' = Append(out, Truncate(last_assistant_item,
                                 ElapsedTime(latest_media_timestamp,
                                             response_start_timestamp_twilio[1])))
            /\ tasks' = [tasks EXCEPT !.deepgram_task = "truncate_sent"]
            /\ dg_done' = FALSE
       ELSE /\ dg_done' = TRUE
            /\ UNCHANGED <<out, tasks>>
    /\ UNCHANGED <<aux_vars, store_op, raised, agent_log, delivered, call_sid, deepgram_ws, stream_sid, latest_media_timestamp, mark_queue,
                   audio_queue, connection_active, start_data, last_assistant_item,
                   response_start_timestamp_twilio, local_vars, connections, uploaded,
                   unacked, sleeps, attempts, cleanup_ran, transcript, n_twilio, tw_msg,
                   mark_seq, popped, frames_since_clear, inbound_bytes, framed>>

\* the truncate is sent: the clear message goes to telephony
DeepgramSendsClear ==
    /\ tasks.deepgram_task = "truncate_sent"
    /\ out' = Append(out, ToTwilio("clear", stream_sid, NONE))
    /\ tasks' = [tasks EXCEPT !.deepgram_task = "clear_sent"]
    /\ UNCHANGED <<aux_vars, store_op, raised, agent_log, delivered, call_sid, deepgram_ws, stream_sid, latest_media_timestamp, mark_queue,
                   audio_queue, connection_active, start_data, speech_started,
                   last_assistant_item, response_start_timestamp_twilio, local_vars,
                   connections, uploaded, unacked, sleeps, attempts, hist_vars>>

\* the clear is sent: the mark queue and the utterance fields are reset
DeepgramResets ==
    /\ tasks.deepgram_task = "clear_sent"
    /\ mark_queue' = ClearMarks(mark_queue)
    /\ last_assistant_item' = NONE
    /\ response_start_timestamp_twilio' = <<>>
    /\ frames_since_clear' = 0
    /\ dg_done' = TRUE
    /\ tasks' = [tasks EXCEPT !.deepgram_task = "recv"]
    /\ UNCHANGED <<aux_vars, store_op, raised, agent_log, delivered, call_sid, deepgram_ws, stream_sid, latest_media_timestamp, audio_queue,
                   connection_active, start_data, speech_started, local_vars, connections,
                   out, uploaded, unacked, sleeps, attempts, cleanup_ran, transcript,
                   n_twilio, n_agent, dg_msg, dg_seen, tw_msg, mark_seq, popped,
                   inbound_bytes, framed>>

\* a binary message: with a stream id the audio goes to telephony as a media
\* message and the task waits for that send
DeepgramAudio(raw) ==
    /\ DeepgramReceives(AgentMsg("binary", NONE, NONE))
    /\ connection_active
    /\ IF stream_sid # NONE
       THEN /\ speech_started' = FALSE
            /\ heard' = Append(heard, raw)
            /\ out' = Append(out, ToTwilio("media", stream_sid, B64Encode(raw)))
            /\ frames_since_clear' = frames_since_clear + 1
            /\ tasks' = [tasks EXCEPT !.deepgram_task = "media_sent"]
            /\ dg_done' = FALSE
       ELSE /\ dg_done' = TRUE
            /\ UNCHANGED <<speech_started, heard, out, frames_since_clear, tasks>>
    /\ UNCHANGED <<peer, said, probed, store_op, raised, agent_log, delivered, call_sid, deepgram_ws, stream_sid, latest_media_timestamp, mark_queue,
                   audio_queue, connection_active, start_data, last_assistant_item,
                   response_start_timestamp_twilio, local_vars, connections, uploaded,
                   unacked, sleeps, attempts, cleanup_ran, transcript, n_twilio, tw_msg,
                   mark_seq, popped, inbound_bytes, framed>>

\* send_mark: the mark message goes to telephony and the task waits for
\* that send
DeepgramSendsMark ==
    /\ tasks.deepgram_task = "media_sent"
    /\ IF stream_sid # NONE
       THEN /\ out' = Append(out, ToTwilio("mark", stream_sid, "responsePart"))
            /\ unacked' = Append(unacked, mark_seq + 1)
            /\ tasks' = [tasks EXCEPT !.deepgram_task = "mark_sent"]
            /\ UNCHANGED dg_done
       ELSE /\ tasks' = [tasks EXCEPT !.deepgram_task = "recv"]
            /\ dg_done' = TRUE
            /\ UNCHANGED <<out, unacked>>
    /\ UNCHANGED <<aux_vars, store_op, raised, agent_log, delivered, call_sid, deepgram_ws, stream_sid, latest_media_timestamp, mark_queue,
                   audio_queue, connection_active, start_data, speech_started,
                   last_assistant_item, response_start_timestamp_twilio, local_vars,
                   connections, uploaded, sleeps, attempts, cleanup_ran, transcript,
                   n_twilio, n_agent, dg_msg, dg_seen, tw_msg, mark_seq, popped,
                   frames_since_clear, inbound_bytes, framed>>

\* the mark is sent: it is appended to mark_queue
DeepgramAppendsMark ==
    /\ tasks.deepgram_task = "mark_sent"
    /\ mark_queue' = AppendMark(mark_queue, mark_seq + 1)
    /\ mark_seq' = mark_seq + 1
    /\ dg_done' = TRUE
    /\ tasks' = [tasks EXCEPT !.deepgram_task = "recv"]
    /\ UNCHANGED <<aux_vars, store_op, raised, agent_log, delivered, call_sid, deepgram_ws, stream_sid, latest_media_timestamp, audio_queue,
                   connection_active, start_data, speech_started, last_assistant_item,
                   response_start_timestamp_twilio, local_vars, connections, out, uploaded,
                   unacked, sleeps, attempts, cleanup_ran, transcript, n_twilio, n_agent,
                   dg_msg, dg_seen, tw_msg, popped, frames_since_clear, inbound_bytes,
                   framed>>

\* The agent closes its socket: with a normal close code ("closed_ok") or
\* without one ("closed_error").
AgentCloses(how) ==
    /\ hpc = "wait"
    /\ deepgram_ws = "open"
    /\ deepgram_ws' = how
    /\ UNCHANGED <<aux_vars, store_op, raised, agent_log, delivered, call_sid, stream_sid, latest_media_timestamp, mark_queue, audio_queue,
                   connection_active, start_data, tasks, speech_started,
                   last_assistant_item, response_start_timestamp_twilio, local_vars,
                   connections, out, uploaded, unacked, sleeps, attempts, hist_vars>>

\* The async for meets the closed socket. After a normal close the iterator
\* just ends; otherwise it raises ConnectionClosed, which the task catches.
DeepgramSeesClose ==
    /\ tasks.deepgram_task = "recv"
    /\ deepgram_ws \in {"closed_ok", "closed_error"}
    /\ connection_active' = IF deepgram_ws = "closed_error" THEN FALSE ELSE connection_active
    /\ tasks' = [tasks EXCEPT !.deepgram_task = "done"]
    /\ raised' = IF deepgram_ws = "closed_error" THEN raised \cup {"deepgram_task"} ELSE raised
    /\ UNCHANGED <<aux_vars, store_op, agent_log, delivered, call_sid, deepgram_ws, stream_sid, latest_media_timestamp, mark_queue,
                   audio_queue, start_data, speech_started, last_assistant_item,
                   response_start_timestamp_twilio, local_vars, connections, out, uploaded,
                   unacked, sleeps, attempts, hist_vars>>

\* ------------------------------------------------------------ a second call
\* The handle_media_stream of another call runs the same code on its own
\* connection_state (peer); the registry is the one object both calls use.
PeerHandles == peer.connection_active /\ peer.n < MaxPeerEvents

\* handle_incoming_call for the second call
PeerIncomingCall(id) ==
    /\ peer.n = 0
    /\ id \notin DOMAIN connections
    /\ connections' = add_connection(connections, id, SessionData("+15550002", TRUE, <<>>))
    /\ UNCHANGED <<conn_vars, local_vars, out, uploaded, unacked, sleeps, attempts, hist_vars,
                   agent_log, delivered, raised, store_op, aux_vars>>

\* its start event: the call id is taken once, the stream id every time
PeerStart(sid, cid) ==
    /\ PeerHandles
    /\ peer' = [peer EXCEPT
                  !.call_sid = StartCallSid(@, sid, cid),
                  !.stream_sid = sid,
                  !.latest_media_timestamp = 0,
                  !.last_assistant_item = NONE,
                  !.response_start_timestamp_twilio = <<>>,
                  !.n = @ + 1]
    /\ UNCHANGED <<conn_vars, local_vars, connections, out, uploaded, unacked, sleeps,
                   attempts, hist_vars, agent_log, delivered, raised, store_op, said, heard,
                   probed>>

\* a media event of its inbound track
PeerMedia(p, ts) ==
    /\ PeerHandles
    /\ B64Valid(p)
    /\ LET buf == BCat(peer.inbuffer, B64Decode(p)) IN
       peer' = [peer EXCEPT
                  !.latest_media_timestamp = IntOf(ts),
                  !.audio_queue = @ \o Frames(buf),
                  !.inbuffer = Remainder(buf),
                  !.n = @ + 1]
    /\ UNCHANGED <<conn_vars, local_vars, connections, out, uploaded, unacked, sleeps,
                   attempts, hist_vars, agent_log, delivered, raised, store_op, said, heard,
                   probed>>

\* a ConversationText event of its agent
PeerConversationText(role, item) ==
    /\ PeerHandles
    /\ connections' = add_message(connections, peer.call_sid, role, "peer text")
    /\ said' = Said(said, connections, peer.call_sid, Message(role, "peer text"))
    /\ peer' = [peer EXCEPT
                  !.last_assistant_item = IF role = "assistant" THEN item ELSE @,
                  !.response_start_timestamp_twilio =
                      IF role = "assistant" /\ @ = <<>>
                      THEN <<peer.latest_media_timestamp>> ELSE @,
                  !.n = @ + 1]
    /\ UNCHANGED <<conn_vars, local_vars, out, uploaded, unacked, sleeps, attempts,
                   hist_vars, agent_log, delivered, raised, store_op, heard, probed>>

\* agent audio of the second call, forwarded and marked (send_mark)
PeerAudio ==
    /\ PeerHandles
    /\ peer.stream_sid # NONE
    /\ peer' = [peer EXCEPT !.mark_queue = AppendMark(@, Len(@) + 1), !.n = @ + 1]
    /\ UNCHANGED <<conn_vars, local_vars, connections, out, uploaded, unacked, sleeps,
                   attempts, hist_vars, agent_log, delivered, raised, store_op, said, heard,
                   probed>>

\* its stop event
PeerStop ==
    /\ PeerHandles
    /\ peer' = [peer EXCEPT !.connection_active = FALSE, !.n = @ + 1]
    /\ UNCHANGED <<conn_vars, local_vars, connections, out, uploaded, unacked, sleeps,
                   attempts, hist_vars, agent_log, delivered, raised, store_op, said, heard,
                   probed>>

\* ------------------------------------------------------- the specifications
\* The life of a call: webhook, first message, connection attempts, the three
\* tasks, every way they end, cleanup.
Next ==
    \/ HandleIncomingCall("CA1")
    \/ \E msg \in {StartMsg("MZ1", "CA1"), NoData} :
          InitializeConnectionState(msg)
    \/ \E outcome \in {"InvalidHandshake", "ConnectError", "SessionError"} :
          ConnectFails(outcome)
    \/ SleepDone
    \/ ConnectOk
    \/ WaitReturns
    \/ TwilioStart("MZ1", "CA1")
    \/ TwilioStop
    \/ TwilioMalformed
    \/ TwilioDisconnects
    \/ TwilioTimeout
    \/ \E msg \in {StopMsg} : TwilioProbeReads(msg)
    \/ TwilioProbeFails
    \/ \E msg \in {AgentMsg("ConversationText", "user", NONE)} : DeepgramInactive(msg)
    \/ DeepgramConversationText("user", NONE)
    \/ \E how \in {"closed_ok", "closed_error"} : AgentCloses(how)
    \/ DeepgramSeesClose

Spec == Init /\ [][Next]_vars

\* The agent connection: every way an attempt fails, the session set-up, the
\* upload of audio on the connection that was set up, and the shutdown with
\* the cancelled tasks ending afterwards.
NextConnect ==
    \/ \E msg \in {StartMsg("MZ1", "CA1"), NoData} :
          InitializeConnectionState(msg)
    \/ \E outcome \in {"InvalidHandshake", "ConnectError", "HandshakeTimeout",
                        "SessionError"} :
          ConnectFails(outcome)
    \/ SleepDone
    \/ ConnectOk
    \/ WaitReturns
    \/ TwilioMedia("inbound", "cDI=", NONE)
    \/ TwilioStop
    \/ SenderGets
    \/ SenderSent
    \/ \E how \in {"closed_ok", "closed_error"} : AgentCloses(how)
    \/ DeepgramSeesClose
    \/ \E t \in DOMAIN tasks : CancelledErrorDelivered(t)

SpecConnect == Init /\ [][NextConnect]_vars

\* The text messages of the agent leg: transcript lines of both roles and
\* texts that are not JSON, until either leg ends the call.
NextAgentText ==
    \/ HandleIncomingCall("CA1")
    \/ InitializeConnectionState(StartMsg("MZ1", "CA1"))
    \/ ConnectOk
    \/ WaitReturns
    \/ \E ts \in Timestamps : TwilioMedia("inbound", "cDQ=", ts)
    \/ TwilioStop
    \/ \E msg \in {AgentMsg("not json", NONE, NONE)} : DeepgramInactive(msg)
    \/ \E role \in {"user", "assistant"} : DeepgramConversationText(role, "abc")
    \/ DeepgramMalformed
    \/ \E how \in {"closed_ok", "closed_error"} : AgentCloses(how)
    \/ DeepgramSeesClose

SpecAgentText == Init /\ [][NextAgentText]_vars

\* The session registry on its own: sessions of two ids created (with and
\* without a log of their own), appended to and removed in any order.
StoreIds == {"CA1", "CA2"}
StoreDatas ==
    {SessionData("+15550001", FALSE, <<>>),
     SessionData("+15550002", TRUE, <<Message("user", "old")>>)}
NextStore ==
    \/ \E id \in StoreIds, data \in StoreDatas : StoreCreate(id, data)
    \/ \E id \in StoreIds, role \in {"user", "assistant"} : StoreAppend(id, role)
    \/ \E id \in StoreIds : StoreRemove(id)

SpecStore == Init /\ [][NextStore]_vars

\* The media clock and the utterances measured against it: media events with
\* and without a timestamp, the start events that begin a new stream (with
\* and without a call id of their own), the texts of two agent utterances
\* and the caller interrupting them.
Utterances == {"abc", "def"}
NextMedia ==
    \/ InitializeConnectionState(StartMsg("MZ1", "CA1"))
    \/ ConnectOk
    \/ WaitReturns
    \/ \E ts \in Timestamps \cup {NONE} : TwilioMedia("inbound", "cDQ=", ts)
    \/ \E cid \in {NONE, "CA2"} : TwilioStart("MZ2", cid)
    \/ TwilioStop
    \/ \E item \in Utterances : DeepgramConversationText("assistant", item)
    \/ DeepgramUserStartedSpeaking
    \/ DeepgramSendsClear
    \/ DeepgramResets

SpecMedia == Init /\ [][NextMedia]_vars

\* The errors of the three loops: a telephony text that is not JSON and a
\* telephony disconnect, an upload that fails on a closed agent socket, an
\* agent event without a type and an agent socket closed abnormally, beside
\* the agent text that is not JSON, which is handled where it is read, and
\* the agent event of a type the handler does not know.
NextErrors ==
    \/ InitializeConnectionState(StartMsg("MZ1", "CA1"))
    \/ ConnectOk
    \/ WaitReturns
    \/ TwilioMedia("inbound", "cDI=", NONE)
    \/ TwilioMalformed
    \/ TwilioDisconnects
    \/ SenderGets
    \/ SenderSent
    \/ SenderSendFails
    \/ DeepgramMalformed
    \/ DeepgramUnrecognised
    \/ DeepgramRaises
    \/ \E how \in {"closed_ok", "closed_error"} : AgentCloses(how)
    \/ DeepgramSeesClose

\* asyncio resumes the handler waiting in asyncio.wait once a task has ended
FairErrorsSpec == Init /\ [][NextErrors]_vars /\ WF_vars(WaitReturns)

\* Two calls at once: the events of one call interleaved in every order with
\* the events of the other, each call with its own session in the registry.
NextCalls ==
    \/ HandleIncomingCall("CA1")
    \/ InitializeConnectionState(StartMsg("MZ1", "CA1"))
    \/ ConnectOk
    \/ WaitReturns
    \/ TwilioStop
    \/ \E role \in {"user", "assistant"} : DeepgramConversationText(role, "abc")
    \/ PeerIncomingCall("CA2")
    \/ PeerStart("MZ2", "CA2")
    \/ PeerMedia("cDI=", "650")
    \/ \E role \in {"user", "assistant"} : PeerConversationText(role, "def")
    \/ PeerAudio
    \/ PeerStop

SpecCalls == Init /\ [][NextCalls]_vars

\* The agent's audio on its way to telephony: chunks that differ, each with
\* its mark, while start events change the stream id and marks come back.
NextAudio ==
    \/ \E msg \in {StartMsg("MZ1", "CA1"), ConnectedMsg} : InitializeConnectionState(msg)
    \/ ConnectOk
    \/ WaitReturns
    \/ TwilioStart("MZ2", NONE)
    \/ TwilioMark
    \/ TwilioStop
    \/ \E raw \in AudioChunks : DeepgramAudio(raw)
    \/ DeepgramSendsMark
    \/ DeepgramAppendsMark

SpecAudio == Init /\ [][NextAudio]_vars

\* The call id: calls whose first message is or is not a start event, start
\* events with other ids arriving later, and messages logged in between.
NextCallId ==
    \/ \E id \in {"CA1", "CA2"} : HandleIncomingCall(id)
    \/ \E msg \in {StartMsg("MZ1", "CA1"), ConnectedMsg} : InitializeConnectionState(msg)
    \/ ConnectOk
    \/ WaitReturns
    \/ \E cid \in {NONE, "CA1", "CA2"} : TwilioStart("MZ2", cid)
    \/ TwilioStop
    \/ DeepgramConversationText("user", NONE)

SpecCallId == Init /\ [][NextCallId]_vars

\* The relay at work: media timestamps, agent utterances, barge-in, agent
\* audio and its marks.
NextRelay ==
    \/ \E msg \in {StartMsg("MZ1", "CA1"), ConnectedMsg} : InitializeConnectionState(msg)
    \/ ConnectOk
    \/ WaitReturns
    \/ \E ts \in Timestamps : TwilioMedia("inbound", "cDQ=", ts)
    \/ TwilioStart("MZ2", NONE)
    \/ TwilioMark
    \/ TwilioStop
    \/ \E item \in ItemIds \cup {NONE} : DeepgramConversationText("assistant", item)
    \/ DeepgramUserStartedSpeaking
    \/ DeepgramSendsClear
    \/ DeepgramResets
    \/ \E raw \in AgentAudio : DeepgramAudio(raw)
    \/ DeepgramSendsMark
    \/ DeepgramAppendsMark

SpecRelay == Init /\ [][NextRelay]_vars

\* The audio framer: media events of both tracks and all payloads, and the
\* upload of the frames.
NextFramer ==
    \/ InitializeConnectionState(StartMsg("MZ1", "CA1"))
    \/ ConnectOk
    \/ WaitReturns
    \/ \E tr \in Tracks, p \in Payloads : TwilioMedia(tr, p, NONE)
    \/ TwilioOther
    \/ TwilioStop
    \/ SenderGets
    \/ SenderSent

SpecFramer == Init /\ [][NextFramer]_vars

\* The life of a call under the scheduling asyncio guarantees: once a task has
\* ended, the handler waiting in asyncio.wait is resumed.
FairSpec == Init /\ [][Next]_vars /\ WF_vars(WaitReturns)

\* The same with every step the relay takes on its own scheduled: a sleep
\* ends, a task whose socket was closed is resumed, the handler is resumed.
\* What the two peers send, and when, stays free.
FairRelaySpec ==
    Init /\ [][Next]_vars /\ WF_vars(WaitReturns) /\ WF_vars(SleepDone)
         /\ WF_vars(DeepgramSeesClose)

\* ------------------------------------------------------------------ claims
NoBargeIn == \A i \in 1..Len(out) : out[i].kind # "clear"
MarkSeqs(q) == [i \in 1..Len(q) |-> q[i].seq]
HandledUserStartedSpeaking == dg_done /\ dg_msg.type = "UserStartedSpeaking"

\* C1: once a "UserStartedSpeaking" event has been handled that arrived while
\* a stream id, lastAssistantItemId and responseStartTimestampMs were set, the
\* relay has written, in this order and nothing else, a truncate instruction
\* for that item with audio_end_ms = latestMediaTimestampMs -
\* responseStartTimestampMs (both as of the event) and a clear message to
\* telephony, and markQueue is empty and both utterance fields are unset.
C1_BargeInTruncatesAndClears ==
    (/\ HandledUserStartedSpeaking
     /\ dg_seen.stream_sid # NONE
     /\ dg_seen.last_assistant_item # NONE
     /\ dg_seen.response_start_timestamp_twilio # <<>>)
    => /\ Len(out) = dg_seen.out + 2
       /\ out[dg_seen.out + 1].to = "agent"
       /\ out[dg_seen.out + 1].kind = "conversation.item.truncate"
       /\ out[dg_seen.out + 1].item_id = dg_seen.last_assistant_item
       /\ out[dg_seen.out + 1].ms =
             dg_seen.latest_media_timestamp - dg_seen.response_start_timestamp_twilio[1]
       /\ out[dg_seen.out + 2].to = "twilio"
       /\ out[dg_seen.out + 2].kind = "clear"
       /\ mark_queue = <<>>
       /\ last_assistant_item = NONE
       /\ response_start_timestamp_twilio = <<>>

\* the scenario of the claim: the utterance "abc" began at 100 ms, the media
\* clock stands at 650 ms, marks are pending, and the truncate says 550 ms
C1_Witness ==
    /\ HandledUserStartedSpeaking
    /\ dg_seen.stream_sid # NONE
    /\ dg_seen.last_assistant_item = "abc"
    /\ dg_seen.response_start_timestamp_twilio = <<100>>
    /\ dg_seen.latest_media_timestamp = 650
    /\ dg_seen.mark_queue # <<>>
    /\ Len(out) = dg_seen.out + 2
    /\ out[dg_seen.out + 1].ms = 550
    /\ mark_queue = <<>>

\* C2: a step that handles a "UserStartedSpeaking" event while
\* lastAssistantItemId is unset writes nothing to either socket and leaves
\* markQueue, lastAssistantItemId and responseStartTimestampMs as they were.
C2_NoUtteranceNoBargeIn ==
    [][(/\ n_agent' = n_agent + 1
        /\ dg_msg'.type = "UserStartedSpeaking"
        /\ last_assistant_item = NONE)
       => /\ out' = out
          /\ mark_queue' = mark_queue
          /\ last_assistant_item' = last_assistant_item
          /\ response_start_timestamp_twilio' = response_start_timestamp_twilio]_vars

\* a second "UserStartedSpeaking" right after a barge-in: the last thing
\* written before it was the clear message, and nothing was written for it
C2_Witness ==
    /\ HandledUserStartedSpeaking
    /\ dg_seen.last_assistant_item = NONE
    /\ dg_seen.out > 0
    /\ out[dg_seen.out].kind = "clear"
    /\ Len(out) = dg_seen.out

\* C3: once a "UserStartedSpeaking" event has been handled that arrived while
\* a stream id was set and markQueue was not empty, a clear message has been
\* written to telephony for it and markQueue is empty.
C3_CallerSpeechAlwaysWins ==
    (/\ HandledUserStartedSpeaking
     /\ dg_seen.stream_sid # NONE
     /\ dg_seen.mark_queue # <<>>)
    => /\ \E i \in (dg_seen.out + 1)..Len(out) : out[i].kind = "clear"
       /\ mark_queue = <<>>

\* C7: without barge-in the marks leave markQueue in the order they were
\* sent: the i-th mark popped is the i-th mark sent, and the queue holds the
\* marks that follow, in sending order.
C7_MarkQueueIsFifo ==
    NoBargeIn
    => /\ \A i \in 1..Len(popped) : popped[i] = i
       /\ \A i \in 1..Len(mark_queue) : mark_queue[i].seq = Len(popped) + i

\* two marks were sent and both were acknowledged, in sending order
C7_Witness ==
    /\ NoBargeIn
    /\ popped = <<1, 2>>
    /\ n_twilio = 2
    /\ n_agent = 2

\* C8: markQueue is never longer than the number of agent audio frames
\* forwarded to telephony since markQueue was last cleared by a barge-in, or
\* since the start of the call.
C8_MarksBoundedByFrames == Len(mark_queue) <= frames_since_clear

\* a frame forwarded, and its mark pending, after a barge-in cleared the queue
C8_Witness ==
    /\ ~NoBargeIn
    /\ frames_since_clear = 1
    /\ Len(mark_queue) = 1
    /\ mark_seq >= 2

\* C9: without barge-in, while the call is active and the agent-receive loop
\* is not in the middle of forwarding a frame, markQueue holds exactly the
\* marks sent to telephony and not yet acknowledged by it; when the call is
\* closed and every mark was acknowledged, markQueue is empty.
C9_MarkQueueIsThePendingMarks ==
    NoBargeIn
    => /\ (hpc = "wait" /\ tasks.deepgram_task = "recv") => MarkSeqs(mark_queue) = unacked
       /\ (hpc = "closed" /\ unacked = <<>>) => mark_queue = <<>>

\* C4: when the handler has returned, cleanup_connection has run, no task is
\* left running, the agent socket is closed and, for a call whose id is known,
\* the transcript has been assembled from the registry.
C4_CleanupOnEveryExit ==
    hpc = "closed"
    => /\ cleanup_ran
       /\ \A t \in DOMAIN tasks : ~IsRunning(tasks[t])
       /\ deepgram_ws # "open"
       /\ call_sid # NONE => transcript.assembled

StopProcessed == tw_msg.event = "stop"
Closed == hpc = "closed"

WholeFrames(n) == (n \div 3200) * 3200
C6_FramingIsLossless ==
    /\ framed = BTake(inbound_bytes, WholeFrames(BLen(inbound_bytes)))
    /\ BCat(Flatten(uploaded), Flatten(audio_queue)) = framed
    /\ \A i \in 1..Len(audio_queue) : BLen(audio_queue[i]) = 3200
    /\ \A i \in 1..Len(uploaded) : BLen(uploaded[i]) = 3200
    /\ inbuffer = BDrop(inbound_bytes, WholeFrames(BLen(inbound_bytes)))
    /\ BLen(inbuffer) < 3200

\* three inbound chunks made two frames that begin inside one chunk and end
\* inside another, a remainder is left, and the stream has ended
C6_Witness ==
    /\ Closed
    /\ StopProcessed
    /\ BLen(framed) = 2 * 3200
    /\ Len(framed) > 1
    /\ inbuffer # <<>>

C11_TimeoutBacksOff ==
    /\ (Len(attempts) = 1 /\ attempts[1] = "HandshakeTimeout" /\ hpc = "connect")
          => (Len(sleeps) = 1 /\ sleeps[1] >= 1)
    /\ (Len(attempts) = 2 /\ attempts[1] = "HandshakeTimeout"
           /\ attempts[2] = "HandshakeTimeout" /\ hpc = "connect")
          => (Len(sleeps) = 2 /\ sleeps[1] >= 1 /\ sleeps[2] >= 2)

\* C12: no call makes more than three connection attempts, and when the third
\* has failed the handler has returned with cleanup run, no loop ever started
\* and nothing sent to the agent but the Settings messages.
C12_AtMostThreeAttempts ==
    /\ Len(attempts) <= 3
    /\ (Len(attempts) = 3 /\ attempts[3] # "ok")
          => /\ hpc = "closed"
             /\ cleanup_ran
             /\ tasks = NoTasks
             /\ uploaded = <<>>
             /\ \A i \in 1..3 : attempts[i] # "ok"

\* three failures of three kinds, and the call is over
C12_Witness ==
    /\ attempts = <<"InvalidHandshake", "HandshakeTimeout", "SessionError">>
    /\ hpc = "closed"
    /\ cleanup_ran
    /\ sleeps = <<1>>

\* C13: the attempt that started the loops is the last one: after it the
\* handler waits for the loops or has returned, and never connects again.
C13_NoRetryMidCall ==
    \A i \in 1..Len(attempts) :
        attempts[i] = "ok" => (i = Len(attempts) /\ hpc \in {"wait", "closed"})

\* the loops ran on the first attempt and ended with connection_active still
\* set, so that the finally clause did not call cleanup_connection: the
\* handler has returned all the same
C13_Witness ==
    /\ attempts = <<"ok">>
    /\ attempt = 0
    /\ hpc = "closed"
    /\ connection_active
    /\ ~cleanup_ran

\* C14: every audio frame sent to the agent is sent on a connection on which,
\* before it, the Settings message was sent and then the agent's first
\* message was received.
C14_HandshakeBeforeAudio ==
    \A i \in 1..Len(agent_log) :
        agent_log[i].what = "audio"
        => \E j \in 1..(i - 1), k \in 1..(i - 1) :
              /\ j < k
              /\ agent_log[j] = Sent(agent_log[i].conn, "Settings")
              /\ agent_log[k] = Received(agent_log[i].conn, "response")

\* a first connection whose handshake timed out carried no audio; the second
\* carried a frame after its handshake
C14_Witness ==
    agent_log = <<Sent(1, "Settings"), Sent(2, "Settings"), Received(2, "response"),
                  Sent(2, "audio")>>

\* C15: when the wait for the first telephony message has failed, the handler
\* has returned without any connection attempt and without starting a loop.
C15_NoStartIsFatal ==
    (start_data = NoData /\ hpc # "initialize")
    => (hpc = "closed" /\ attempts = <<>> /\ tasks = NoTasks)

\* C16: a telephony-inbound loop that is in its liveness probe leaves it: the
\* probe is answered, fails or times out, so that a silent peer cannot keep
\* the loop waiting.
C16_ProbeEnds ==
    (tasks.twilio_task = "probe") ~> (tasks.twilio_task # "probe")

\* C17: after a telephony message that is not JSON, and while the handler
\* still waits for the loops, connection_active is set and the
\* telephony-inbound loop is running.
C17_BadTelephonyJsonIsSkipped ==
    (tw_msg.event = "not json" /\ hpc = "wait")
    => (connection_active /\ IsRunning(tasks.twilio_task))

\* C18: a step in which the agent-receive loop handles a text that is not
\* JSON leaves the loop waiting for the next message and changes neither
\* connection_active, nor the relay state, nor the registry, and writes
\* nothing to either socket.
C18_BadAgentJsonIsSkipped ==
    [][(/\ n_agent' = n_agent + 1
        /\ dg_msg'.type = "not json"
        /\ connection_active)
       => /\ connection_active'
          /\ tasks'.deepgram_task = "recv"
          /\ connections' = connections
          /\ out' = out
          /\ UNCHANGED <<call_sid, stream_sid, latest_media_timestamp, mark_queue,
                         audio_queue, speech_started, last_assistant_item,
                         response_start_timestamp_twilio, uploaded, deepgram_ws>>]_vars

\* a transcript line was recorded, then a text that is not JSON was handled:
\* the line is still there and the loop is waiting for the next message
C18_Witness ==
    /\ dg_msg.type = "not json"
    /\ dg_done
    /\ n_agent >= 2
    /\ call_sid \in DOMAIN connections
    /\ Len(connections[call_sid].messages) >= 1
    /\ last_assistant_item = "abc"
    /\ response_start_timestamp_twilio = <<650>>
    /\ tasks.deepgram_task = "recv"
    /\ connection_active

\* C19: the step in which the handler wakes from asyncio.wait leaves no loop
\* running; once the handler has returned no loop runs, and nothing more is
\* written to either socket.
C19_FirstExitCancelsTheOthers ==
    /\ [][(hpc = "wait" /\ hpc' # "wait")
            => \A t \in DOMAIN tasks : ~IsRunning(tasks'[t])]_vars
    /\ [](hpc = "closed" => \A t \in DOMAIN tasks : ~IsRunning(tasks[t]))
    /\ [][hpc = "closed" => (out' = out /\ uploaded' = uploaded)]_vars

\* the agent-receive loop ended first and the other two were cancelled
C19_Witness ==
    /\ hpc = "closed"
    /\ tasks.deepgram_task = "done"
    /\ tasks.twilio_task = "cancelled"
    /\ tasks.deepgram_sender_task = "cancelled"

\* C20: when the handler has closed the agent socket, every task it cancelled
\* has ended (CancelledError was raised in it).
C20_TasksEndBeforeSocketCloses ==
    (hpc = "closed" /\ deepgram_ws = "closed")
    => \A t \in DOMAIN tasks : tasks[t] = "cancelled" => t \in delivered

\* a step that applies the registry operation op
StoreStep(op) == store_op'.n = store_op.n + 1 /\ store_op'.op = op
OthersUnchanged(id) ==
    /\ DOMAIN connections' \ {id} = DOMAIN connections \ {id}
    /\ \A c \in DOMAIN connections \ {id} : connections'[c] = connections[c]

\* C28: add_message for an id without a session leaves the registry as it
\* was (no session is created, no log changes); for an id with a session it
\* leaves the other sessions and the session's metadata as they were and
\* makes the session's log the old log followed by exactly the new message.
C28_AppendIsNoOpWithoutSession ==
    [][StoreStep("append")
       => LET id == store_op'.id IN
          IF id \notin DOMAIN connections
          THEN connections' = connections
          ELSE /\ OthersUnchanged(id)
               /\ id \in DOMAIN connections'
               /\ connections'[id].phone = connections[id].phone
               /\ Len(connections'[id].messages) = Len(connections[id].messages) + 1
               /\ SubSeq(connections'[id].messages, 1, Len(connections[id].messages))
                     = connections[id].messages]_vars

\* a message was appended for an id whose session had been removed, while
\* another session with a log exists: the id still has no session
C28_Witness ==
    /\ store_op.op = "append"
    /\ store_op.id = "CA1"
    /\ store_op.n = 4
    /\ "CA1" \notin DOMAIN connections
    /\ "CA2" \in DOMAIN connections
    /\ Len(connections["CA2"].messages) = 2

\* C29: after remove_connection(id), get_connection(id) finds nothing, the
\* other sessions are as they were, and an id without a session stays
\* without one through every step that is not an add_connection of that id.
C29_RemovedIsNotFound ==
    /\ [][StoreStep("remove")
            => /\ get_connection(connections', store_op'.id) = <<>>
               /\ OthersUnchanged(store_op'.id)]_vars
    /\ [][\A id \in StoreIds :
              (id \notin DOMAIN connections
                 /\ ~(StoreStep("create") /\ store_op'.id = id))
              => get_connection(connections', id) = <<>>]_vars

\* a session with a log was removed while another exists, and then an id
\* that has no session was removed again
C29_Witness ==
    /\ store_op.op = "remove"
    /\ store_op.id = "CA1"
    /\ store_op.had = -1
    /\ store_op.n = 4
    /\ "CA1" \notin DOMAIN connections
    /\ "CA2" \in DOMAIN connections
    /\ connections["CA2"].messages # <<>>

\* C30: add_connection on an id that has a session replaces it: afterwards
\* the id's session holds the new metadata and the log the new dict brought
\* (an empty one if it brought none), whatever was logged before; the other
\* sessions are as they were.
C30_CreateOverwrites ==
    [][StoreStep("create")
       => /\ get_connection(connections', store_op'.id) = <<Session(store_op'.data)>>
          /\ OthersUnchanged(store_op'.id)]_vars

\* a session with two logged messages was created again with new metadata
\* and no log: the two messages are gone
C30_Witness ==
    /\ store_op.op = "create"
    /\ store_op.had = 2
    /\ store_op.data = SessionData("+15550001", FALSE, <<>>)
    /\ connections[store_op.id] = [phone |-> "+15550001", messages |-> <<>>]


\* C21: once connectionActive is false no loop begins another send: every
\* step that writes a message to the telephony socket or to the agent socket
\* (a media, mark or clear message, a truncate instruction, a frame upload)
\* is taken while connectionActive is true.
C21_NoSendOnceInactive ==
    [][(Len(out') > Len(out) \/ Len(uploaded') > Len(uploaded))
          => connection_active]_vars


\* C22: within one media stream latestMediaTimestampMs never decreases as
\* media events are processed: a step that handles a media event whose
\* timestamp is absent, or is present and not below the value held, leaves
\* latestMediaTimestampMs at least as large as it was.
C22_MediaClockNeverDecreases ==
    [][(/\ n_twilio' = n_twilio + 1
        /\ tw_msg'.event = "media"
        /\ (tw_msg'.timestamp # NONE
               => IntOf(tw_msg'.timestamp) >= latest_media_timestamp))
          => latest_media_timestamp' >= latest_media_timestamp]_vars


\* C23: when a later agent utterance begins, responseStartTimestampMs records
\* that utterance's own start: a step that handles the text of an agent
\* utterance other than the one in lastAssistantItemId leaves
\* responseStartTimestampMs at the media timestamp of that moment.
C23_UtteranceRecordsItsOwnStart ==
    [][(/\ n_agent' = n_agent + 1
        /\ dg_msg'.type = "ConversationText"
        /\ dg_msg'.role = "assistant"
        /\ connection_active
        /\ dg_msg'.item_id # last_assistant_item)
          => response_start_timestamp_twilio' = <<latest_media_timestamp>>]_vars


\* C24: audioQueue is bounded: the number of frames waiting for upload never
\* exceeds a fixed capacity, however fast telephony produces them. The
\* capacity tried is the number of telephony messages of the run: a queue
\* with any capacity at all refuses a frame before holding more.
C24_QueueIsBounded == Len(audio_queue) <= MaxTwilioEvents


\* C25: connectionActive is false once either side terminates: whenever the
\* telephony-inbound loop or the agent-inbound loop has ended (a telephony
\* stop or disconnect, the agent socket closed by the remote, normally or
\* abnormally), connectionActive is false.
C25_InactiveOnceASideEnds ==
    (tasks.twilio_task = "done" \/ tasks.deepgram_task = "done")
        => ~connection_active


\* C27: when the agent-upload loop has a frame to send and the agent socket
\* is no longer open, this is terminal for the session: the step in which
\* the loop takes a frame from the queue while the socket is not open sets
\* connectionActive to false and ends the upload loop.
C27_ClosedSocketEndsUpload ==
    [][(/\ tasks.deepgram_sender_task = "get"
        /\ Len(audio_queue') < Len(audio_queue)
        /\ deepgram_ws # "open")
          => (~connection_active' /\ tasks'.deepgram_sender_task = "done")]_vars


\* C26: an error raised inside one of the three loops does not escape the
\* handler of the call: once it has reached the loop's own handler,
\* connectionActive is false and that loop's task has ended, for good, and
\* the handler then leaves asyncio.wait and runs cleanup_connection. (A text
\* of the agent that is not JSON is skipped where it is read and is no such
\* error: C18.)
C26_LoopErrorsShutTheCallDown ==
    /\ [](\A t \in raised : ~connection_active /\ tasks[t] = "done")
    /\ ((raised # {}) ~> (hpc = "closed" /\ cleanup_ran))
C26_Witness ==
    /\ raised = {"twilio_task", "deepgram_task", "deepgram_sender_task"}
    /\ hpc = "closed"
    /\ cleanup_ran


\* C31: for any interleaving of the appends of two calls, each session's log
\* holds exactly the messages appended for its own call id, in the order they
\* were appended, and none of the other call's messages.
SaidFor(id) == IF id \in DOMAIN said THEN said[id] ELSE <<>>
C31_LogsDoNotInterleave ==
    \A id \in DOMAIN connections :
        /\ connections[id].messages = SaidFor(id)
        /\ \A i \in 1..Len(connections[id].messages) :
              connections[id].messages[i].content =
                  (IF id = "CA1" THEN "text" ELSE "peer text")
C31_Witness ==
    /\ hpc = "closed"
    /\ ~peer.connection_active
    /\ DOMAIN connections = {"CA1", "CA2"}
    /\ Len(connections["CA1"].messages) = 2
    /\ connections["CA1"].messages[1].role # connections["CA1"].messages[2].role
    /\ Len(connections["CA2"].messages) = 2
    /\ connections["CA2"].messages[1].role # connections["CA2"].messages[2].role

\* C33: two calls share no relay state: a step of one call leaves the other
\* call's connection_state (stream id, connection_active, media timestamp,
\* mark_queue, utterance fields, audio_queue) as it was, and outside its own
\* connection_state it changes at most its own session in the registry.
C33_CallsShareNoRelayState ==
    /\ [][peer' # peer => (UNCHANGED conn_vars /\ OthersUnchanged(peer'.call_sid))]_vars
    /\ [][conn_vars' # conn_vars => (peer' = peer /\ OthersUnchanged(call_sid'))]_vars
C33_Witness ==
    /\ DOMAIN connections = {"CA1", "CA2"}
    /\ peer.stream_sid = "MZ2" /\ stream_sid = "MZ1"
    /\ peer.latest_media_timestamp = 650 /\ latest_media_timestamp = 0
    /\ peer.last_assistant_item = "def" /\ last_assistant_item = "abc"
    /\ Len(peer.audio_queue) = 1 /\ audio_queue = <<>>
    /\ ~peer.connection_active /\ connection_active
    /\ Len(connections["CA1"].messages) = 1
    /\ Len(connections["CA2"].messages) = 1


\* C34: while the agent socket is open the upload loop sends the frames in
\* the order the framer enqueued them, each once and none skipped: the frames
\* sent followed by the frames still waiting are the frames enqueued, in
\* order, and every step that takes a frame off the queue sends that frame
\* next and leaves the frames sent before as they were.
C34_UploadKeepsQueueOrder ==
    /\ [](deepgram_ws = "open" => uploaded \o audio_queue = Frames(framed))
    /\ [][(deepgram_ws = "open" /\ Len(audio_queue') < Len(audio_queue))
            => (/\ uploaded' = Append(uploaded, Head(audio_queue))
                /\ audio_queue' = Tail(audio_queue))]_vars
    /\ [][deepgram_ws = "open"
            => (/\ Len(uploaded') >= Len(uploaded)
                /\ SubSeq(uploaded', 1, Len(uploaded)) = uploaded)]_vars
C34_Witness ==
    /\ deepgram_ws = "open"
    /\ Len(uploaded) = 2
    /\ uploaded[1] # uploaded[2]
    /\ audio_queue # <<>>
    /\ audio_queue[1] # uploaded[2]


\* C32: a session's log is kept in insertion order and never reordered (it
\* is what was appended, in order, and a step only ever adds at its end); the
\* transcript assembled at the end of the call has exactly one line per
\* logged message, in log order, with that message's role and content; for a
\* call id without a session it is the fixed "no transcript" value.
C32_TranscriptFollowsTheLog ==
    /\ [](\A id \in DOMAIN connections : connections[id].messages = SaidFor(id))
    /\ [][\A id \in DOMAIN connections \cap DOMAIN connections' :
             /\ Len(connections'[id].messages) >= Len(connections[id].messages)
             /\ SubSeq(connections'[id].messages, 1, Len(connections[id].messages))
                   = connections[id].messages]_vars
    /\ [](transcript.assembled =>
            IF call_sid \in DOMAIN connections
            THEN /\ transcript.available
                 /\ Len(transcript.lines) = Len(SaidFor(call_sid))
                 /\ \A i \in 1..Len(transcript.lines) :
                       /\ transcript.lines[i].role = Upper(SaidFor(call_sid)[i].role)
                       /\ transcript.lines[i].content = SaidFor(call_sid)[i].content
            ELSE transcript = [assembled |-> TRUE, available |-> FALSE, lines |-> <<>>])
C32_Witness ==
    /\ transcript.assembled
    /\ transcript.available
    /\ Len(transcript.lines) = 3
    /\ transcript.lines[1].role = "ASSISTANT"
    /\ transcript.lines[2].role = "USER"
    /\ transcript.lines[3].role = "USER"


\* C35: for each binary audio event received while a stream id is set the
\* relay writes to telephony one media message with that audio and the stream
\* id, then one mark message with the stream id of that moment, and appends
\* one entry to markQueue; the audio is forwarded in the order received.
\* Stated of an event handled to its end, of each step of the handling, and
\* of the media and mark messages written so far.
IsMedia(m) == m.kind = "media"
C35_AudioIsForwardedAndMarked ==
    /\ []((dg_done /\ dg_msg.type = "binary" /\ dg_seen.stream_sid # NONE)
            => /\ Len(out) = dg_seen.out + 2
               /\ out[dg_seen.out + 1] =
                     ToTwilio("media", dg_seen.stream_sid, B64Encode(heard[Len(heard)]))
               /\ out[dg_seen.out + 2].kind = "mark"
               /\ out[dg_seen.out + 2].sid # NONE)
    /\ [](LET media == SelectSeq(out, IsMedia) IN
            /\ Len(media) = Len(heard)
            /\ \A i \in 1..Len(media) : media[i].data = B64Encode(heard[i]))
    /\ [](\A i \in 1..Len(out) :
            /\ out[i].kind = "mark" => (i > 1 /\ out[i - 1].kind = "media")
            /\ (out[i].kind = "media" /\ i < Len(out)) => out[i + 1].kind = "mark")
    /\ [][(tasks.deepgram_task = "media_sent" /\ Len(out') > Len(out))
            => out' = Append(out, ToTwilio("mark", stream_sid, "responsePart"))]_vars
    /\ [][(tasks.deepgram_task = "mark_sent" /\ tasks'.deepgram_task = "recv")
            => (/\ Len(mark_queue') = Len(mark_queue) + 1
                /\ SubSeq(mark_queue', 1, Len(mark_queue)) = mark_queue
                /\ mark_queue'[Len(mark_queue')].name = "responsePart")]_vars
C35_Witness ==
    /\ dg_done
    /\ Len(out) = 4
    /\ out[1].kind = "media" /\ out[1].sid = "MZ1"
    /\ out[2].kind = "mark" /\ out[2].sid = "MZ1"
    /\ out[3].kind = "media" /\ out[3].sid = "MZ2" /\ out[3].data # out[1].data
    /\ out[4].kind = "mark" /\ out[4].sid = "MZ2"
    /\ Len(mark_queue) = 2


\* C36: whenever lastAssistantItemId is set responseStartTimestampMs is set,
\* and the two are only ever cleared together: every step leaves the start
\* set if it leaves the item set, clears the start if it clears the item, and
\* clears the item if it clears the start.
C36_UtteranceFieldsGoTogether ==
    [][/\ last_assistant_item' # NONE => response_start_timestamp_twilio' # <<>>
       /\ (last_assistant_item # NONE /\ last_assistant_item' = NONE)
             => response_start_timestamp_twilio' = <<>>
       /\ (response_start_timestamp_twilio # <<>>
              /\ response_start_timestamp_twilio' = <<>>)
             => last_assistant_item' = NONE]_vars


\* C37: every message read from the telephony socket is dispatched by its
\* event type, also the one the liveness probe reads after a timeout: a step
\* in which the relay reads a stop event leaves connectionActive false and
\* the telephony-inbound loop ended.
ReadsStop ==
    /\ n_twilio' = n_twilio + 1
    /\ \/ tw_msg' # tw_msg /\ tw_msg'.event = "stop"
       \/ tasks.twilio_task = "probe" /\ probed'.event = "stop"
C37_EveryStopReadEndsTheCall ==
    [][ReadsStop => (~connection_active' /\ tasks'.twilio_task = "done")]_vars


\* C38: the audio_end_ms of every truncate instruction sent to the agent is
\* non-negative, whatever the order of media events, start events, agent
\* texts and "user started speaking" events.
C38_AudioEndIsNonNegative ==
    \A i \in 1..Len(out) :
        out[i].kind = "conversation.item.truncate" => out[i].ms >= 0


\* C39: a well-formed JSON event of the agent whose type is unrecognised or
\* absent is dropped: the step that handles it changes no relay state and
\* nothing in the registry, the agent-inbound loop waits for the next event
\* and connectionActive stays true.
HandlesUntypedEvent ==
    /\ n_agent' = n_agent + 1
    /\ connection_active
    /\ dg_msg'.type \in {NONE, "Welcome"}
C39_UntypedEventIsDropped ==
    [][HandlesUntypedEvent
         => (/\ connection_active'
             /\ tasks'.deepgram_task = "recv"
             /\ connections' = connections
             /\ UNCHANGED <<call_sid, stream_sid, latest_media_timestamp, mark_queue,
                            audio_queue, speech_started, last_assistant_item,
                            response_start_timestamp_twilio>>)]_vars


\* C40: once the relay has a call id no step changes it, whatever ids later
\* start events carry; so every message the relay appended went to the
\* session of that one id, and the transcript assembled at the end is the
\* transcript of that session.
C40_CallIdIsTakenOnce ==
    /\ [][call_sid # NONE => call_sid' = call_sid]_vars
    /\ [](DOMAIN said \subseteq {call_sid})
    /\ [](transcript.available
            => /\ call_sid \in DOMAIN connections
               /\ Len(transcript.lines) = Len(SaidFor(call_sid)))
C40_Witness ==
    /\ call_sid = "CA1"
    /\ tw_msg = StopMsg
    /\ stream_sid = "MZ2"
    /\ DOMAIN connections = {"CA1", "CA2"}
    /\ connections["CA2"].messages = <<>>
    /\ Len(connections["CA1"].messages) = 2
    /\ transcript.available
    /\ Len(transcript.lines) = 2

====
